---- MODULE Spec2Model ----
(***************************************************************************)
(* A model of backend.py, the relay of an end-to-end-encrypted group chat. *)
(*                                                                         *)
(* The program is a single asyncio process: a handler runs without         *)
(* interruption from one `await` to the next, so every action below is one *)
(* such segment of a handler.  A segment that resumes from a database call *)
(* takes the call's effect (the read or the write) in the same step; what  *)
(* it read is kept in the handler's locals, so a later write of the same   *)
(* handler works on a stale snapshot exactly as in the code.               *)
(*                                                                         *)
(* The two Mongo collections are functions from document ids to documents, *)
(* the three module-level dicts are functions whose DOMAIN is the dict's   *)
(* key set.  `connected[server_id]` is a Python dict that the code         *)
(* iterates over while awaiting: it is kept as the dict's entry array, in  *)
(* insertion order, with a hole where an entry was deleted.                *)
(*                                                                         *)
(* Member identifiers are plain names: the path syntax of Mongo field      *)
(* names ("." and "$") is not modelled.  The TTL expiry of documents is    *)
(* the database's, not this program's, and does not occur.                 *)
(***************************************************************************)
EXTENDS Integers, Sequences, FiniteSets, TLC

\* ------------------------------------------------------------ constants
MESSAGE_LIMIT == 10
WINDOW_SEC == 60
SIZE_LIMIT == 4096
CONN_LIMIT_PER_IP == 5

\* ------------------------------------------------------------ bounds
MaxConns == 7
RelayConns == 3
JoinConns == 1
MaxJoins == 2
NotifyJoins == 1
MaxFrames == 2
MaxTime == 121
MaxRateFrames == 12
RateConns == 2
MaxHandshaking == 1

AllConns == 1..MaxConns
AllJoins == 1..MaxJoins
Rooms == {"r1", "r2"}
Members == {"a", "b"}
Origins == {"o1", "o2"}
NoUser == "None"

VARIABLES
  servers,         \* servers_col: server_id -> document
  member_tokens,   \* member_tokens_col: server_id -> (user_id -> member_token)
  connected,       \* connected: server_id -> entry array of {user_id: WebSocket}
  rate_limits,     \* rate_limits: key -> list of timestamps
  ip_connections,  \* ip_connections: ip -> count
  now,             \* time.time()
  next_uuid,       \* the next value uuid.uuid4() yields for a member token
  ws,              \* one websocket_endpoint call per connection: its locals
  jn,              \* one join_server call per request: its locals
  inbox,           \* what each connection's client has been sent
  allowed          \* history: per key, the times is_rate_limited answered False

vars == <<servers, member_tokens, connected, rate_limits, ip_connections,
          now, next_uuid, ws, jn, inbox, allowed>>

\* ------------------------------------------------------------ dict helpers
\* f with key k set to v (k added when missing).
Put(f, k, v) == (k :> v) @@ f

\* f without key k.
Del(f, k) == [x \in DOMAIN f \ {k} |-> f[x]]

\* A deleted entry of a dict's entry array.
Hole == [user |-> NoUser, ws |-> 0]

Live(d) == {i \in 1..Len(d) : d[i].ws # 0}

\* len(d)
Used(d) == Cardinality(Live(d))

\* user_id in d
HasKey(d, u) == \E i \in Live(d) : d[i].user = u

IndexOf(d, u) == CHOOSE i \in Live(d) : d[i].user = u

\* d[user_id]
DictGet(d, u) == d[IndexOf(d, u)].ws

\* d[user_id] = websocket: in place for a present key, appended for a new one.
DictSet(d, u, c) ==
  IF HasKey(d, u) THEN [d EXCEPT ![IndexOf(d, u)].ws = c]
  ELSE Append(d, [user |-> u, ws |-> c])

\* del d[user_id]
DictDel(d, u) == [d EXCEPT ![IndexOf(d, u)] = Hole]

\* The connections held in d.
Values(d) == {d[i].ws : i \in Live(d)}

IsLive(e) == e.ws # 0

Compact(d) == SelectSeq(d, IsLive)

\* `for ws in d.values()`: a new iterator, and one call of next() on it.
IterNew(d) == [pos |-> 1, used |-> Used(d), len |-> Used(d)]

NoIter == [pos |-> 0, used |-> 0, len |-> 0]

Ahead(d, it) == {i \in Live(d) : i >= it.pos}

Min(S) == CHOOSE x \in S : \A y \in S : x <= y

\* "error": RuntimeError (the dict changed during iteration); "stop": exhausted.
IterNext(d, it) ==
  IF it.used # Used(d) THEN [kind |-> "error", ws |-> 0, it |-> it]
  ELSE IF Ahead(d, it) = {} THEN [kind |-> "stop", ws |-> 0, it |-> it]
  ELSE IF it.len = 0 THEN [kind |-> "error", ws |-> 0, it |-> it]
  ELSE [kind |-> "item", ws |-> d[Min(Ahead(d, it))].ws,
        it |-> [pos |-> Min(Ahead(d, it)) + 1, used |-> it.used, len |-> it.len - 1]]

\* Holes are seen by iterators only: with none running over a room, its
\* entry array is kept without them.
Iterating(r, w, j) ==
  \/ \E c \in AllConns : w[c].pc = "broadcast" /\ w[c].server_id = r
  \/ \E q \in AllJoins : j[q].pc = "notify" /\ j[q].server_id = r

Norm(conn, w, j) ==
  [r \in DOMAIN conn |-> IF Iterating(r, w, j) THEN conn[r] ELSE Compact(conn[r])]

\* ------------------------------------------------------------ rate limiter
\* Fresh with <= for the < of line 48.
FreshInclusive(msgs, t) == SelectSeq(msgs, LAMBDA x : t - x <= WINDOW_SEC)

\* Line 48: the timestamps still inside the window.
Fresh(msgs, t) == SelectSeq(msgs, LAMBDA x : t - x < WINDOW_SEC)

Messages(rl, key) == IF key \in DOMAIN rl THEN rl[key] ELSE <<>>

\* is_rate_limited(key, now): the answer and rate_limits afterwards.
is_rate_limited(rl, key, t) ==
  LET messages == Fresh(Messages(rl, key), t) IN
  IF Len(messages) >= MESSAGE_LIMIT
  THEN [limited |-> TRUE, rl |-> Put(rl, key, messages)]
  ELSE [limited |-> FALSE, rl |-> Put(rl, key, Append(messages, t))]

\* ------------------------------------------------------------ key bundles
\* Text is a sequence of characters: 0..63 the base64 alphabet, Pad the "=",
\* Junk a character outside the alphabet.  Bytes are sequences of 0..255.
Pad == 64
Junk == 65

RECURSIVE a2b(_, _, _, _)
\* binascii.a2b_base64 (not strict), from character i on: quad_pos, leftchar
\* and pads are its registers, out the bytes written so far.
a2b(s, i, reg, out) ==
  IF i > Len(s)
  THEN [ok |-> reg.quad_pos = 0, bytes |-> out]
  ELSE LET ch == s[i] IN
    IF ch = Pad
    THEN IF reg.quad_pos >= 2 /\ reg.quad_pos + reg.pads + 1 >= 4
         THEN [ok |-> TRUE, bytes |-> out]
         ELSE a2b(s, i + 1,
                  [reg EXCEPT !.pads = IF reg.quad_pos >= 2 THEN reg.pads + 1 ELSE reg.pads],
                  out)
    ELSE IF ch >= 64
    THEN a2b(s, i + 1, reg, out)
    ELSE CASE reg.quad_pos = 0 ->
                a2b(s, i + 1, [quad_pos |-> 1, leftchar |-> ch, pads |-> 0], out)
           [] reg.quad_pos = 1 ->
                a2b(s, i + 1, [quad_pos |-> 2, leftchar |-> ch % 16, pads |-> 0],
                    Append(out, (reg.leftchar * 4 + ch \div 16) % 256))
           [] reg.quad_pos = 2 ->
                a2b(s, i + 1, [quad_pos |-> 3, leftchar |-> ch % 4, pads |-> 0],
                    Append(out, (reg.leftchar * 16 + ch \div 4) % 256))
           [] OTHER ->
                a2b(s, i + 1, [quad_pos |-> 0, leftchar |-> 0, pads |-> 0],
                    Append(out, (reg.leftchar * 64 + ch) % 256))

\* base64.b64decode(text): ok is FALSE where it raises binascii.Error.
b64decode(s) == a2b(s, 1, [quad_pos |-> 0, leftchar |-> 0, pads |-> 0], <<>>)

RECURSIVE b64encode(_)
\* base64.b64encode(bytes).decode()
b64encode(b) ==
  IF Len(b) = 0 THEN <<>>
  ELSE IF Len(b) = 1 THEN <<b[1] \div 4, (b[1] % 4) * 16, Pad, Pad>>
  ELSE IF Len(b) = 2
  THEN <<b[1] \div 4, (b[1] % 4) * 16 + b[2] \div 16, (b[2] % 16) * 4, Pad>>
  ELSE <<b[1] \div 4, (b[1] % 4) * 16 + b[2] \div 16,
         (b[2] % 16) * 4 + b[3] \div 64, b[3] % 64>>
       \o b64encode(SubSeq(b, 4, Len(b)))

\* A registration id on the wire is decimal text: characters 0..9 are the
\* digits, anything above is not a digit.
RECURSIVE ParseDigits(_, _)
ParseDigits(s, acc) ==
  IF Len(s) = 0 THEN acc ELSE ParseDigits(Tail(s), acc * 10 + Head(s))

\* int(text): ok is FALSE where it raises ValueError.
ParseInt(s) ==
  IF Len(s) = 0 \/ \E i \in 1..Len(s) : s[i] > 9
  THEN [ok |-> FALSE, value |-> 0]
  ELSE [ok |-> TRUE, value |-> ParseDigits(s, 0)]

BinaryFields == {"identity", "signed_prekey", "signed_prekey_sig", "one_time_prekey"}

\* Lines 103-112: the stored bundle of a posted prekey_bundle; ok is FALSE
\* where the try block raises.
DecodeBundle(prekey) ==
  [ok |-> /\ ParseInt(prekey.registration_id).ok
          /\ \A f \in BinaryFields : b64decode(prekey[f]).ok,
   bundle |-> [registration_id |-> ParseInt(prekey.registration_id).value,
               identity |-> b64decode(prekey.identity).bytes,
               signed_prekey |-> b64decode(prekey.signed_prekey).bytes,
               signed_prekey_sig |-> b64decode(prekey.signed_prekey_sig).bytes,
               one_time_prekey |-> b64decode(prekey.one_time_prekey).bytes]]

\* Lines 129-135: a stored bundle as the response carries it.
EncodeBundle(b) ==
  [registration_id |-> b.registration_id,
   identity |-> b64encode(b.identity),
   signed_prekey |-> b64encode(b.signed_prekey),
   signed_prekey_sig |-> b64encode(b.signed_prekey_sig),
   one_time_prekey |-> b64encode(b.one_time_prekey)]

\* The prekey bundles a client posts.  "TQ==", "TWE=", "TWFu", "" and the
\* non-canonical "TR==" (it decodes as "TQ==" does) are well formed; "TWE"
\* lacks its padding.
NoPrekey == [present |-> FALSE, registration_id |-> <<>>, identity |-> <<>>,
             signed_prekey |-> <<>>, signed_prekey_sig |-> <<>>,
             one_time_prekey |-> <<>>]
Prekey1 == [present |-> TRUE, registration_id |-> <<7>>,
            identity |-> <<19, 16, Pad, Pad>>,
            signed_prekey |-> <<19, 22, 4, Pad>>,
            signed_prekey_sig |-> <<19, 22, 5, 46>>,
            one_time_prekey |-> <<>>]
Prekey2 == [present |-> TRUE, registration_id |-> <<1, 2>>,
            identity |-> <<19, 17, Pad, Pad>>,
            signed_prekey |-> <<19, Junk, 22, 4, Pad>>,
            signed_prekey_sig |-> <<19, 22, 5, 46, 19, 16, Pad, Pad>>,
            one_time_prekey |-> <<19, 22, 5, 46>>]
PrekeyBadPadding == [Prekey1 EXCEPT !.signed_prekey = <<19, 22, 4>>]
PrekeyBadRegistration == [Prekey1 EXCEPT !.registration_id = <<7, 10>>]
Prekeys == {NoPrekey, Prekey1, Prekey2, PrekeyBadPadding, PrekeyBadRegistration}

\* The join_token create_server draws for a room, and one nobody was given.
JoinToken(r) == IF r = "r1" THEN "jt1" ELSE "jt2"
WrongJoinToken == "jt0"

\* ------------------------------------------------------------ state
NoRoom == "None"

\* `snap`, `tried` and `last` of a handler are history, not locals of the
\* code: the connections its dict held when its fan-out began, those a send
\* was begun to, and what became of its last frame; so are `admitted`, `torn`
\* and `exc` (how often the finally block ran, and what the handler ended on).
\*
\* A frame as the relay sees it: the dict {"type": .., "to": .., "body": ..}
\* parsed from the client's JSON text.  `body` counts the characters of the
\* body: those the client sent as themselves and those it sent as a \uXXXX
\* escape.  `src` and `n` tell the frames of the model apart (the n-th frame
\* of connection src; a join notification has the negated number of its join
\* request as src).
Text(plain, escaped) == [plain |-> plain, escaped |-> escaped]

NoData == [type |-> "none", to |-> NoUser, user_id |-> NoUser, body |-> Text(0, 0),
           src |-> 0, n |-> 0]

Frame(type, to, body) ==
  [type |-> type, to |-> to, user_id |-> NoUser, body |-> body, src |-> 0, n |-> 0]

\* The length of the value of "type".
TypeLen(type) == IF type = "private" THEN 7 ELSE 5

\* Line 212, len(str(data)): the repr of the dict, 'type': '..' and then
\* , 'to': 'a' and , 'body': '..' between braces; every character of the
\* body is one character of it.
StrLen(data) ==
  2 + (10 + TypeLen(data.type)) + (IF data.to = NoUser THEN 0 ELSE 11)
    + (12 + data.body.plain + data.body.escaped)

\* The size of the frame as receive_json (line 208) took it off the
\* transport, in its most compact form: "type":".." and then ,"to":"a" and
\* ,"body":".." between braces; an escaped character is six characters of it.
JsonLen(data) ==
  2 + (9 + TypeLen(data.type)) + (IF data.to = NoUser THEN 0 ELSE 9)
    + (10 + data.body.plain + 6 * data.body.escaped)

IdleWs ==
  [pc |-> "idle", server_id |-> NoRoom, member_token |-> 0, user_id |-> NoUser,
   ip |-> "None", alive |-> FALSE, code |-> 0, admitted |-> FALSE, torn |-> 0,
   exc |-> "none", data |-> NoData, nframes |-> 0, it |-> NoIter, target |-> 0,
   snap |-> {}, tried |-> {}, last |-> "none", stalled |-> FALSE]

NoBody == [join_token |-> "None", user_id |-> NoUser, prekey_bundle |-> NoPrekey]

NoBundle == [registration_id |-> 0, identity |-> <<>>, signed_prekey |-> <<>>,
             signed_prekey_sig |-> <<>>, one_time_prekey |-> <<>>]

NoResponse == [member_token |-> 0, others |-> <<>>, admin_user_id |-> NoUser]

IdleJoin ==
  [pc |-> "idle", server_id |-> NoRoom, body |-> NoBody, bundle |-> NoBundle,
   set_admin |-> FALSE, member_token |-> 0, response |-> NoResponse, status |-> 0,
   it |-> NoIter, target |-> 0, snap |-> {}, tried |-> {}, exc |-> "none"]

\* The state of a process that has just started.
Init ==
  /\ servers = <<>>
  /\ member_tokens = <<>>
  /\ connected = <<>>
  /\ rate_limits = <<>>
  /\ ip_connections = <<>>
  /\ now = 0
  /\ next_uuid = 1
  /\ ws = [c \in AllConns |-> IdleWs]
  /\ jn = [j \in AllJoins |-> IdleJoin]
  /\ inbox = [c \in AllConns |-> {}]
  /\ allowed = <<>>

\* ------------------------------------------------------------ create_server
create_server(r) ==
  /\ r \notin DOMAIN servers
  /\ servers' = Put(servers, r, [join_token |-> JoinToken(r),
                                 admin_user_id |-> NoUser, members |-> <<>>])
  /\ member_tokens' = Put(member_tokens, r, <<>>)
  /\ connected' = IF r \in DOMAIN connected THEN connected ELSE Put(connected, r, <<>>)
  /\ UNCHANGED <<rate_limits, ip_connections, now, next_uuid, ws, jn, inbox, allowed>>

\* ------------------------------------------------------------ sending
\* The frame as connection t's client receives it.
Deliver(box, t, data) == [box EXCEPT ![t] = @ \cup {data}]

\* A send to connection t raises, or is lost, only once t's transport is gone.
TransportOpen(w, t) == w[t].alive

\* ------------------------------------------------------------ join_server
\* The request arrives: lines 87-90, up to the read of the room's document.
JoinStart(j, r, body) ==
  /\ jn[j].pc = "idle"
  /\ \A k \in 1..(j - 1) : jn[k].pc # "idle"
  /\ jn' = [jn EXCEPT ![j] = [@ EXCEPT !.pc = "find_server", !.server_id = r,
                                       !.body = body]]
  /\ UNCHANGED <<servers, member_tokens, connected, rate_limits, ip_connections,
                 now, next_uuid, ws, inbox, allowed>>

\* JoinCheck without the try/except of lines 103-112.
JoinCheckNoDecode(server_docs, r, body) ==
  IF r \notin DOMAIN server_docs THEN 404
  ELSE IF body.join_token # server_docs[r].join_token THEN 401
  ELSE IF body.user_id = NoUser THEN 400
  ELSE IF ~body.prekey_bundle.present THEN 400
  ELSE 0

\* The HTTP status lines 91-112 answer with, 0 when they let the request pass.
JoinCheck(server_docs, r, body) ==
  IF r \notin DOMAIN server_docs THEN 404
  ELSE IF body.join_token # server_docs[r].join_token THEN 401
  ELSE IF body.user_id = NoUser THEN 400
  ELSE IF ~body.prekey_bundle.present THEN 400
  ELSE IF ~DecodeBundle(body.prekey_bundle).ok THEN 400
  ELSE 0

\* Line 116, on the document read at line 90.
AdminUnset(server) == server.admin_user_id = NoUser

\* Lines 90-118: the document is read, the request checked, the update built.
JoinFindServer(j) ==
  /\ jn[j].pc = "find_server"
  /\ LET r == jn[j].server_id
         st == JoinCheck(servers, r, jn[j].body) IN
     jn' = IF st # 0
           THEN [jn EXCEPT ![j] = [@ EXCEPT !.pc = "done", !.status = st]]
           ELSE [jn EXCEPT ![j] = [@ EXCEPT !.pc = "update",
                     !.bundle = DecodeBundle(jn[j].body.prekey_bundle).bundle,
                     !.set_admin = AdminUnset(servers[r])]]
  /\ UNCHANGED <<servers, member_tokens, connected, rate_limits, ip_connections,
                 now, next_uuid, ws, inbox, allowed>>

\* Lines 118-122: the update is applied, the member token drawn.
JoinUpdate(j) ==
  /\ jn[j].pc = "update"
  /\ LET r == jn[j].server_id
         u == jn[j].body.user_id IN
     /\ servers' = [servers EXCEPT ![r] = [@ EXCEPT
                       !.members = Put(@, u, jn[j].bundle),
                       !.admin_user_id = IF jn[j].set_admin THEN u ELSE @]]
     /\ jn' = [jn EXCEPT ![j] = [@ EXCEPT !.pc = "set_token",
                                          !.member_token = next_uuid]]
     /\ next_uuid' = next_uuid + 1
  /\ UNCHANGED <<member_tokens, connected, rate_limits, ip_connections, now, ws, inbox, allowed>>

\* Lines 122-125: the token is stored.
JoinSetToken(j) ==
  /\ jn[j].pc = "set_token"
  /\ LET r == jn[j].server_id
         u == jn[j].body.user_id IN
     member_tokens' = [member_tokens EXCEPT ![r] = Put(@, u, jn[j].member_token)]
  /\ jn' = [jn EXCEPT ![j].pc = "refresh"]
  /\ UNCHANGED <<servers, connected, rate_limits, ip_connections, now, next_uuid,
                 ws, inbox, allowed>>

\* Others without the test of line 128: the joining member is included.
OthersWithSelf(server, user_id) ==
  [u \in DOMAIN server.members |-> EncodeBundle(server.members[u])]

\* Lines 126-135: the bundles of the others, from the refreshed document.
Others(server, user_id) ==
  [u \in DOMAIN server.members \ {user_id} |-> EncodeBundle(server.members[u])]

\* Lines 137-141.
Response(server, user_id, member_token) ==
  [member_token |-> member_token, others |-> Others(server, user_id),
   admin_user_id |-> server.admin_user_id]

\* The join_notification of line 146.
Notification(j, user_id) ==
  [type |-> "join_notification", to |-> NoUser, user_id |-> user_id, body |-> Text(0, 0),
   src |-> 0 - j, n |-> 1]

\* Lines 125-146: the document is read again, the response built and the
\* broadcast begun: up to the first send, or to the return with nobody connected.
JoinRefresh(j) ==
  /\ jn[j].pc = "refresh"
  /\ LET r == jn[j].server_id
         resp == Response(servers[r], jn[j].body.user_id, jn[j].member_token)
         d == IF r \in DOMAIN connected THEN connected[r] ELSE <<>>
         nx == IterNext(d, IterNew(d)) IN
     jn' = IF nx.kind = "item"
           THEN [jn EXCEPT ![j] = [@ EXCEPT !.pc = "notify", !.response = resp,
                     !.it = nx.it, !.target = nx.ws, !.snap = Values(d),
                     !.tried = {nx.ws}]]
           ELSE [jn EXCEPT ![j] = [@ EXCEPT !.pc = "done", !.response = resp,
                     !.status = 200]]
  /\ UNCHANGED <<servers, member_tokens, connected, rate_limits, ip_connections,
                 now, next_uuid, ws, inbox, allowed>>

\* Lines 145-148: the pending send_json ends; `outcome` is "sent", "lost"
\* (the transport was gone and the send did not notice) or "raised".  After a
\* send that did not raise the loop goes on to the next connection.
JoinNotify(j, outcome) ==
  /\ jn[j].pc = "notify"
  /\ LET r == jn[j].server_id
         t == jn[j].target
         nx == IterNext(connected[r], jn[j].it)
         jn2 == IF outcome = "raised" \/ nx.kind = "error"
                THEN [jn EXCEPT ![j].pc = "done", ![j].status = 500,
                                ![j].exc = IF outcome = "raised" THEN "send" ELSE "iteration"]
                ELSE IF nx.kind = "stop"
                THEN [jn EXCEPT ![j].pc = "done", ![j].status = 200]
                ELSE [jn EXCEPT ![j] = [@ EXCEPT !.it = nx.it, !.target = nx.ws,
                                                 !.tried = @ \cup {nx.ws}]] IN
     /\ ~ws[t].stalled
     /\ IF outcome = "sent" THEN TransportOpen(ws, t) ELSE ~TransportOpen(ws, t)
     /\ jn' = jn2
     /\ inbox' = IF outcome = "sent"
                 THEN Deliver(inbox, t, Notification(j, jn[j].body.user_id))
                 ELSE inbox
     /\ connected' = Norm(connected, ws, jn2)
  /\ UNCHANGED <<servers, member_tokens, rate_limits, ip_connections, now,
                 next_uuid, ws, allowed>>

\* ------------------------------------------------------------ websocket_endpoint
\* A client opens a connection: lines 168-171, up to the read of the room.
ConnStart(c, r, token, ip) ==
  /\ ws[c].pc = "idle"
  /\ \A k \in 1..(c - 1) : ws[k].pc # "idle"
  /\ ws' = [ws EXCEPT ![c] = [@ EXCEPT !.pc = "find_server", !.server_id = r,
                                       !.member_token = token, !.ip = ip,
                                       !.alive = TRUE]]
  /\ UNCHANGED <<servers, member_tokens, connected, rate_limits, ip_connections,
                 now, next_uuid, jn, inbox, allowed>>

\* The client's side of the transport goes away; the handler learns of it at
\* its next accept, receive or send, so a loss before the handshake is taken
\* as one during it.
ClientClose(c) ==
  /\ ws[c].pc \in {"accepting", "receive", "touch", "send_private", "broadcast"}
  /\ ws[c].alive
  /\ ws' = [ws EXCEPT ![c].alive = FALSE, ![c].stalled = FALSE]
  /\ UNCHANGED <<servers, member_tokens, connected, rate_limits, ip_connections,
                 now, next_uuid, jn, inbox, allowed>>

\* The client stops reading while its transport stays open: a send_json to
\* it (lines 146, 231, 235) does not return while that lasts.
ClientStall(c) ==
  /\ ws[c].pc \in {"receive", "touch", "send_private", "broadcast"}
  /\ ws[c].alive /\ ~ws[c].stalled
  /\ ws' = [ws EXCEPT ![c].stalled = TRUE]
  /\ UNCHANGED <<servers, member_tokens, connected, rate_limits, ip_connections,
                 now, next_uuid, jn, inbox, allowed>>

\* Lines 171-177: no such room closes with 1008.
WsFindServer(c) ==
  /\ ws[c].pc = "find_server"
  /\ ws' = IF ws[c].server_id \in DOMAIN servers
           THEN [ws EXCEPT ![c].pc = "find_tokens"]
           ELSE [ws EXCEPT ![c] = [@ EXCEPT !.pc = "closed", !.code = 1008,
                                            !.alive = FALSE]]
  /\ UNCHANGED <<servers, member_tokens, connected, rate_limits, ip_connections,
                 now, next_uuid, jn, inbox, allowed>>

\* FindUser without the comparison of line 181: the first user of the document.
FindUserUnchecked(tokens_col, r, member_token) ==
  IF r \in DOMAIN tokens_col /\ DOMAIN tokens_col[r] # {}
  THEN CHOOSE u \in DOMAIN tokens_col[r] : TRUE
  ELSE NoUser

\* Lines 178-183: the user_id whose stored token is member_token, or None.
FindUser(tokens_col, r, member_token) ==
  IF r \in DOMAIN tokens_col
       /\ \E u \in DOMAIN tokens_col[r] : tokens_col[r][u] = member_token
  THEN CHOOSE u \in DOMAIN tokens_col[r] : tokens_col[r][u] = member_token
  ELSE NoUser

\* Admit with > for the >= of line 194.
AdmitOneMore(ipc, ip) ==
  LET ipc1 == IF ip \in DOMAIN ipc THEN ipc ELSE Put(ipc, ip, 0) IN
  IF ipc1[ip] > CONN_LIMIT_PER_IP
  THEN [ok |-> FALSE, ipc |-> ipc1]
  ELSE [ok |-> TRUE, ipc |-> [ipc1 EXCEPT ![ip] = @ + 1]]

\* Lines 192-197: the answer of the per-ip limit and ip_connections afterwards.
Admit(ipc, ip) ==
  LET ipc1 == IF ip \in DOMAIN ipc THEN ipc ELSE Put(ipc, ip, 0) IN
  IF ipc1[ip] >= CONN_LIMIT_PER_IP
  THEN [ok |-> FALSE, ipc |-> ipc1]
  ELSE [ok |-> TRUE, ipc |-> [ipc1 EXCEPT ![ip] = @ + 1]]

\* Lines 177-199: the token is looked up, the connection limit applied.
WsAuth(c) ==
  /\ ws[c].pc = "find_tokens"
  /\ LET u == FindUser(member_tokens, ws[c].server_id, ws[c].member_token)
         a == Admit(ip_connections, ws[c].ip) IN
     IF u = NoUser
     THEN /\ ws' = [ws EXCEPT ![c] = [@ EXCEPT !.pc = "closed", !.code = 1008,
                                               !.alive = FALSE]]
          /\ UNCHANGED ip_connections
     ELSE /\ ip_connections' = a.ipc
          /\ ws' = IF a.ok
                   THEN [ws EXCEPT ![c] = [@ EXCEPT !.pc = "accepting",
                                                    !.user_id = u, !.admitted = TRUE]]
                   ELSE [ws EXCEPT ![c] = [@ EXCEPT !.pc = "closed", !.user_id = u,
                                                    !.code = 1013, !.alive = FALSE]]
  /\ UNCHANGED <<servers, member_tokens, connected, rate_limits, now, next_uuid,
                 jn, inbox, allowed>>

\* Lines 202-204.
Register(conn, r, u, c) ==
  LET conn1 == IF r \in DOMAIN conn THEN conn ELSE Put(conn, r, <<>>) IN
  [conn1 EXCEPT ![r] = DictSet(@, u, c)]

\* Lines 199-208: accept() returns and the connection is entered in `connected`.
WsAccept(c) ==
  /\ ws[c].pc = "accepting"
  /\ ws' = [ws EXCEPT ![c].pc = "receive"]
  /\ connected' = Norm(Register(connected, ws[c].server_id, ws[c].user_id, c), ws', jn)
  /\ UNCHANGED <<servers, member_tokens, rate_limits, ip_connections, now,
                 next_uuid, jn, inbox, allowed>>

\* Line 199: accept() raises on a transport that is gone.  The call stands
\* before the try block: the handler ends here.
WsAcceptFail(c) ==
  /\ ws[c].pc = "accepting"
  /\ ~ws[c].alive
  /\ ws' = [ws EXCEPT ![c] = [@ EXCEPT !.pc = "closed", !.exc = "accept"]]
  /\ UNCHANGED <<servers, member_tokens, connected, rate_limits, ip_connections,
                 now, next_uuid, jn, inbox, allowed>>

\* A finally block without lines 239-240.
UnregisterNothing(conn, r, u, c) == conn

\* Lines 239-240.
Unregister(conn, r, u, c) ==
  IF r \in DOMAIN conn /\ HasKey(conn[r], u)
  THEN [conn EXCEPT ![r] = DictDel(@, u)]
  ELSE conn

\* Lines 241-243.
Release(ipc, ip) ==
  IF ipc[ip] - 1 = 0 THEN Del(ipc, ip) ELSE [ipc EXCEPT ![ip] = @ - 1]

\* Lines 236-243: the handler leaves the try block and the finally block runs.
\* `cause` is what raised: receive_json on a closed transport ("disconnect")
\* or on a bad frame ("frame"), a send_json ("send"), or the dict iterator
\* ("iteration").
Teardown(c, w, cause) ==
  /\ ws' = [w EXCEPT ![c] = [@ EXCEPT !.pc = "closed", !.alive = FALSE,
                                      !.torn = @ + 1, !.exc = cause,
                                      !.data = NoData, !.it = NoIter,
                                      !.target = 0, !.snap = {}, !.tried = {}]]
  /\ connected' = Norm(Unregister(connected, ws[c].server_id, ws[c].user_id, c), ws', jn)
  /\ ip_connections' = Release(ip_connections, ws[c].ip)

\* Line 208: receive_json() raises WebSocketDisconnect.
WsDisconnect(c) ==
  /\ ws[c].pc = "receive"
  /\ ~ws[c].alive
  /\ Teardown(c, ws, "disconnect")
  /\ UNCHANGED <<servers, member_tokens, rate_limits, now, next_uuid, jn, inbox, allowed>>

\* Line 208: receive_json() raises on a frame that is not JSON.
WsBadFrame(c) ==
  /\ ws[c].pc = "receive"
  /\ ws[c].alive
  /\ Teardown(c, ws, "frame")
  /\ UNCHANGED <<servers, member_tokens, rate_limits, now, next_uuid, jn, inbox, allowed>>

\* Lines 212-221: "size" for a frame over the size limit, "user" and "ip" for
\* the rate limit that trips, "pass" otherwise; and rate_limits afterwards.
Police(rl, data, user_id, ip, t) ==
  LET byUser == is_rate_limited(rl, user_id, t)
      byIp == is_rate_limited(byUser.rl, ip, t) IN
  IF StrLen(data) > SIZE_LIMIT THEN [verdict |-> "size", rl |-> rl]
  ELSE IF byUser.limited THEN [verdict |-> "user", rl |-> byUser.rl]
  ELSE IF byIp.limited THEN [verdict |-> "ip", rl |-> byIp.rl]
  ELSE [verdict |-> "pass", rl |-> byIp.rl]

RECURSIVE Sum(_, _)
Sum(f, S) == IF S = {} THEN 0 ELSE LET x == CHOOSE y \in S : TRUE IN f[x] + Sum(f, S \ {x})

\* The frames received so far, over all connections.
FramesSoFar == Sum([c \in AllConns |-> ws[c].nframes], AllConns)

\* The history with the time, now, of an event of `key` that was let pass.
Record(hist, passed, key) ==
  IF passed THEN Put(hist, key, Append(Messages(hist, key), now)) ELSE hist

\* Lines 208-224: a frame arrives and is dropped or kept for dispatch.
WsReceive(c, frame) ==
  /\ ws[c].pc = "receive"
  /\ ws[c].alive
  /\ LET data == [frame EXCEPT !.src = c, !.n = ws[c].nframes + 1]
         p == Police(rate_limits, data, ws[c].user_id, ws[c].ip, now) IN
     /\ rate_limits' = p.rl
     /\ allowed' = Record(Record(allowed, p.verdict \in {"ip", "pass"}, ws[c].user_id),
                          p.verdict = "pass", ws[c].ip)
     /\ ws' = IF p.verdict = "pass"
              THEN [ws EXCEPT ![c] = [@ EXCEPT !.pc = "touch", !.data = data,
                                               !.nframes = @ + 1]]
              ELSE [ws EXCEPT ![c].nframes = @ + 1, ![c].last = p.verdict]
  /\ UNCHANGED <<servers, member_tokens, connected, ip_connections, now,
                 next_uuid, jn, inbox>>

\* PrivateTarget looking the member up in every room, not in server_id's.
PrivateTargetAnyRoom(conn, r, to_user) ==
  IF to_user # NoUser /\ \E x \in DOMAIN conn : HasKey(conn[x], to_user)
  THEN DictGet(conn[CHOOSE x \in DOMAIN conn : HasKey(conn[x], to_user)], to_user)
  ELSE 0

\* Lines 228-230: the connection a private frame goes to, 0 for none.
PrivateTarget(conn, r, to_user) ==
  IF to_user # NoUser /\ r \in DOMAIN conn /\ HasKey(conn[r], to_user)
  THEN DictGet(conn[r], to_user)
  ELSE 0

\* Back at receive_json (line 208): the locals of the last frame are dead.
Listening(w) ==
  [w EXCEPT !.pc = "receive", !.data = NoData, !.it = NoIter, !.target = 0,
            !.snap = {}, !.tried = {}]

\* Lines 224-235: update_activity returns and the frame is dispatched: up to
\* the first send, or back to receive_json with nothing to send.
WsDispatch(c) ==
  /\ ws[c].pc = "touch"
  /\ LET r == ws[c].server_id
         data == ws[c].data
         t == PrivateTarget(connected, r, data.to)
         nx == IterNext(connected[r], IterNew(connected[r])) IN
     ws' = IF data.type = "private"
           THEN IF t # 0
                THEN [ws EXCEPT ![c] = [@ EXCEPT !.pc = "send_private", !.target = t,
                                                 !.snap = {t}, !.tried = {t},
                                                 !.last = "private"]]
                ELSE [ws EXCEPT ![c] = [Listening(@) EXCEPT !.last = "absent"]]
           ELSE IF data.type \in {"group", "join_notification"} /\ nx.kind = "item"
           THEN [ws EXCEPT ![c] = [@ EXCEPT !.pc = "broadcast", !.it = nx.it,
                                            !.target = nx.ws,
                                            !.snap = Values(connected[r]),
                                            !.tried = {nx.ws}, !.last = "broadcast"]]
           ELSE [ws EXCEPT ![c] = [Listening(@) EXCEPT !.last = "nothing"]]
  /\ UNCHANGED <<servers, member_tokens, connected, rate_limits, ip_connections,
                 now, next_uuid, jn, inbox, allowed>>

\* Lines 231 and 235: the pending send_json ends; `outcome` is "sent", "lost"
\* or "raised".  A send that raises unwinds through the finally block; after
\* any other the broadcast goes on to the next connection.
WsSend(c, outcome) ==
  /\ ws[c].pc \in {"send_private", "broadcast"}
  /\ LET r == ws[c].server_id
         t == ws[c].target
         nx == IterNext(connected[r], ws[c].it) IN
     /\ ~ws[t].stalled
     /\ IF outcome = "sent" THEN TransportOpen(ws, t) ELSE ~TransportOpen(ws, t)
     /\ inbox' = IF outcome = "sent" THEN Deliver(inbox, t, ws[c].data) ELSE inbox
     /\ IF outcome = "raised" \/ (ws[c].pc = "broadcast" /\ nx.kind = "error")
        THEN Teardown(c, ws, IF outcome = "raised" THEN "send" ELSE "iteration")
        ELSE /\ ws' = IF ws[c].pc = "send_private" \/ nx.kind = "stop"
                      THEN [ws EXCEPT ![c] = Listening(@)]
                      ELSE [ws EXCEPT ![c] = [@ EXCEPT !.it = nx.it, !.target = nx.ws,
                                                       !.tried = @ \cup {nx.ws}]]
             /\ connected' = Norm(connected, ws', jn)
             /\ UNCHANGED ip_connections
  /\ UNCHANGED <<servers, member_tokens, rate_limits, now, next_uuid, jn, allowed>>

\* ------------------------------------------------------------ the clock
Tick(d) ==
  /\ now + d <= MaxTime
  /\ now' = now + d
  /\ UNCHANGED <<servers, member_tokens, connected, rate_limits, ip_connections,
                 next_uuid, ws, jn, inbox, allowed>>

\* ------------------------------------------------------------ specifications
\* The bodies clients post to join_server: the well-formed ones, and one for
\* each way lines 93-112 refuse a request.
GoodBody(r, u, prekey) == [join_token |-> JoinToken(r), user_id |-> u, prekey_bundle |-> prekey]

JoinBodies(r) ==
  {GoodBody(r, u, p) : u \in Members, p \in {Prekey1, Prekey2}}
  \cup {[GoodBody(r, "a", Prekey1) EXCEPT !.join_token = WrongJoinToken],
        GoodBody(r, NoUser, Prekey1)}
  \cup {GoodBody(r, "b", p) : p \in {NoPrekey, PrekeyBadPadding, PrekeyBadRegistration}}

\* The member tokens a client can present: 0 was never issued.
Tokens == 0..(next_uuid - 1)

JoinSteps ==
  \/ \E j \in AllJoins : \E body \in JoinBodies("r1") : JoinStart(j, "r1", body)
  \/ \E j \in AllJoins : JoinFindServer(j)
  \/ \E j \in AllJoins : JoinUpdate(j)
  \/ \E j \in AllJoins : JoinSetToken(j)
  \/ \E j \in AllJoins : JoinRefresh(j)
  \/ \E j \in AllJoins, outcome \in {"sent", "lost", "raised"} : JoinNotify(j, outcome)
  \/ \E c \in 1..JoinConns, token \in Tokens : ConnStart(c, "r1", token, "o1")
  \/ \E c \in 1..JoinConns : ClientClose(c)
  \/ \E c \in 1..JoinConns : WsFindServer(c)
  \/ \E c \in 1..JoinConns : WsAuth(c)
  \/ \E c \in 1..JoinConns : WsAccept(c)
  \/ \E c \in 1..JoinConns : WsAcceptFail(c)
  \/ \E c \in 1..JoinConns : WsDisconnect(c)

JoinNext == create_server("r1") \/ JoinSteps

\* A room is created and joined while clients connect and disconnect.
JoinSpec == Init /\ [][JoinNext]_vars

\* The state after create_server and one join of room r1 by member "a".
RejoinInit ==
  /\ servers = ("r1" :> [join_token |-> JoinToken("r1"), admin_user_id |-> "a",
                         members |-> ("a" :> DecodeBundle(Prekey1).bundle)])
  /\ member_tokens = ("r1" :> ("a" :> 1))
  /\ connected = ("r1" :> <<>>)
  /\ rate_limits = <<>>
  /\ ip_connections = <<>>
  /\ now = 0
  /\ next_uuid = 2
  /\ ws = [c \in AllConns |-> IdleWs]
  /\ jn = [j \in AllJoins |-> IdleJoin]
  /\ inbox = [c \in AllConns |-> {}]
  /\ allowed = <<>>

\* A joined room is joined again while clients connect and disconnect.
RejoinSpec == RejoinInit /\ [][JoinSteps]_vars

\* The state after two rooms were created, "a" and "b" joined room r1 and
\* "a" joined room r2.
RelayInit ==
  /\ servers =
       ("r1" :> [join_token |-> JoinToken("r1"), admin_user_id |-> "a",
                 members |-> ("a" :> DecodeBundle(Prekey1).bundle)
                             @@ ("b" :> DecodeBundle(Prekey2).bundle)])
       @@ ("r2" :> [join_token |-> JoinToken("r2"), admin_user_id |-> "a",
                    members |-> ("a" :> DecodeBundle(Prekey1).bundle)])
  /\ member_tokens = ("r1" :> (("a" :> 1) @@ ("b" :> 2))) @@ ("r2" :> ("a" :> 3))
  /\ connected = ("r1" :> <<>>) @@ ("r2" :> <<>>)
  /\ rate_limits = <<>>
  /\ ip_connections = <<>>
  /\ now = 0
  /\ next_uuid = 4
  /\ ws = [c \in AllConns |-> IdleWs]
  /\ jn = [j \in AllJoins |-> IdleJoin]
  /\ inbox = [c \in AllConns |-> {}]
  /\ allowed = <<>>

\* The frames clients send: private to either member, to the room, and one
\* over the size limit.
RelayFrames ==
  {Frame("private", "a", Text(1, 0)), Frame("private", "b", Text(1, 0)),
   Frame("group", NoUser, Text(1, 0)), Frame("group", NoUser, Text(SIZE_LIMIT + 1, 0))}

\* The connections that are still before their admission (lines 169-197).
Handshaking == Cardinality({c \in AllConns : ws[c].pc \in {"find_server", "find_tokens"}})

\* The room and token a connection presents: "a" and "b" of room r1 on the
\* first connections, "a" of either room on the last.
Credentials(c) ==
  IF c < RelayConns THEN {<<"r1", 1>>, <<"r1", 2>>} ELSE {<<"r1", 1>>, <<"r2", 3>>}

RelayNext ==
  \/ \E c \in 1..RelayConns : \E cred \in Credentials(c) :
       Handshaking < MaxHandshaking /\ ConnStart(c, cred[1], cred[2], "o1")
  \/ \E c \in 1..RelayConns : ClientClose(c)
  \/ \E c \in 1..RelayConns : WsFindServer(c)
  \/ \E c \in 1..RelayConns : WsAuth(c)
  \/ \E c \in 1..RelayConns : WsAccept(c)
  \/ \E c \in 1..RelayConns : WsAcceptFail(c)
  \/ \E c \in 1..RelayConns : WsDisconnect(c)
  \/ \E c \in 1..RelayConns, frame \in RelayFrames :
       FramesSoFar < MaxFrames /\ WsReceive(c, frame)
  \/ \E c \in 1..RelayConns : WsDispatch(c)
  \/ \E c \in 1..RelayConns, outcome \in {"sent", "lost", "raised"} : WsSend(c, outcome)

\* The members of two rooms connect, send frames and disconnect.
RelaySpec == RelayInit /\ [][RelayNext]_vars

\* The connections that are open when the admission runs begin: one fewer
\* than an address may hold.
Opened == 1..(CONN_LIMIT_PER_IP - 1)

\* A connection of "a" from address o1 that waits in receive_json (line 208).
ActiveWs ==
  [IdleWs EXCEPT !.pc = "receive", !.server_id = "r1", !.member_token = 1,
                 !.user_id = "a", !.ip = "o1", !.alive = TRUE, !.admitted = TRUE]

\* `connected` after the connections 1..n of "a" registered in room r1.
RECURSIVE RegisterAll(_, _)
RegisterAll(conn, n) ==
  IF n = 0 THEN conn ELSE Register(RegisterAll(conn, n - 1), "r1", "a", n)

\* The state after "a" joined room r1 and opened the connections of `Opened`
\* from address o1, one after the other.
AdmitInit ==
  /\ servers = ("r1" :> [join_token |-> JoinToken("r1"), admin_user_id |-> "a",
                         members |-> ("a" :> DecodeBundle(Prekey1).bundle)])
  /\ member_tokens = ("r1" :> ("a" :> 1))
  /\ connected = RegisterAll(<<>>, CONN_LIMIT_PER_IP - 1)
  /\ rate_limits = <<>>
  /\ ip_connections = ("o1" :> CONN_LIMIT_PER_IP - 1)
  /\ now = 0
  /\ next_uuid = 2
  /\ ws = [c \in AllConns |-> IF c \in Opened THEN ActiveWs ELSE IdleWs]
  /\ jn = [j \in AllJoins |-> IdleJoin]
  /\ inbox = [c \in AllConns |-> {}]
  /\ allowed = <<>>

\* Further connections are opened from two addresses with the token of "a",
\* and connections close.
AdmitNext ==
  \/ \E c \in AllConns, ip \in Origins :
       Handshaking < MaxHandshaking /\ ConnStart(c, "r1", 1, ip)
  \/ \E c \in AllConns : ClientClose(c)
  \/ \E c \in AllConns : WsFindServer(c)
  \/ \E c \in AllConns : WsAuth(c)
  \/ \E c \in AllConns : WsAccept(c)
  \/ \E c \in AllConns : WsAcceptFail(c)
  \/ \E c \in AllConns : WsDisconnect(c)

\* More connections than one address may hold are opened and closed.
AdmitSpec == AdmitInit /\ [][AdmitNext]_vars

\* The steps of the clock between events: to either side of a window's end.
TickSteps == {WINDOW_SEC - 1, WINDOW_SEC, WINDOW_SEC + 1}

\* A frame that is policed and then relayed to nobody (lines 226-235).
PlainFrame == Frame("other", NoUser, Text(1, 0))

\* "a" and "b" of room r1 connect from one address and send frames while the
\* clock advances.
RateNext ==
  \/ \E c \in 1..RateConns : ConnStart(c, "r1", c, "o1")
  \/ \E c \in 1..RateConns : WsFindServer(c)
  \/ \E c \in 1..RateConns : WsAuth(c)
  \/ \E c \in 1..RateConns : WsAccept(c)
  \/ \E c \in 1..RateConns : FramesSoFar < MaxRateFrames /\ WsReceive(c, PlainFrame)
  \/ \E c \in 1..RateConns : WsDispatch(c)
  \/ \E d \in TickSteps : Tick(d)

RateSpec == RelayInit /\ [][RateNext]_vars

\* Frames to the room: a short one, one too long by any measure, and one
\* whose body is sent as escapes, six characters of the frame for each.
SizeFrames ==
  {Frame("group", NoUser, Text(1, 0)), Frame("group", NoUser, Text(SIZE_LIMIT + 1, 0)),
   Frame("group", NoUser, Text(0, SIZE_LIMIT \div 2))}

\* "a" and "b" of room r1 connect and send frames of several sizes.
SizeNext ==
  \/ \E c \in 1..RateConns : ConnStart(c, "r1", c, "o1")
  \/ \E c \in 1..RateConns : WsFindServer(c)
  \/ \E c \in 1..RateConns : WsAuth(c)
  \/ \E c \in 1..RateConns : WsAccept(c)
  \/ \E c \in 1..RateConns, frame \in SizeFrames :
       FramesSoFar < MaxFrames /\ WsReceive(c, frame)
  \/ \E c \in 1..RateConns : WsDispatch(c)
  \/ \E c \in 1..RateConns : WsSend(c, "sent")

SizeSpec == RelayInit /\ [][SizeNext]_vars

\* The members of room r1 join it again while they and "a" of room r2
\* connect, lose their transports and disconnect.
NotifyNext ==
  \/ \E j \in 1..NotifyJoins : \E u \in Members : JoinStart(j, "r1", GoodBody("r1", u, Prekey1))
  \/ \E j \in 1..NotifyJoins : JoinFindServer(j)
  \/ \E j \in 1..NotifyJoins : JoinUpdate(j)
  \/ \E j \in 1..NotifyJoins : JoinSetToken(j)
  \/ \E j \in 1..NotifyJoins : JoinRefresh(j)
  \/ \E j \in 1..NotifyJoins, outcome \in {"sent", "lost", "raised"} : JoinNotify(j, outcome)
  \/ \E c \in 1..RelayConns : \E cred \in Credentials(c) :
       Handshaking < MaxHandshaking /\ ConnStart(c, cred[1], cred[2], "o1")
  \/ \E c \in 1..RelayConns : ClientClose(c)
  \/ \E c \in 1..RelayConns : WsFindServer(c)
  \/ \E c \in 1..RelayConns : WsAuth(c)
  \/ \E c \in 1..RelayConns : WsAccept(c)
  \/ \E c \in 1..RelayConns : WsAcceptFail(c)
  \/ \E c \in 1..RelayConns : WsDisconnect(c)

NotifySpec == RelayInit /\ [][NotifyNext]_vars

\* "a" and "b" of room r1 connect and send frames to the room; clients stop
\* reading or go away.
StallNext ==
  \/ \E c \in 1..RateConns : ConnStart(c, "r1", c, "o1")
  \/ \E c \in 1..RateConns : ClientClose(c)
  \/ \E c \in 1..RateConns : ClientStall(c)
  \/ \E c \in 1..RateConns : WsFindServer(c)
  \/ \E c \in 1..RateConns : WsAuth(c)
  \/ \E c \in 1..RateConns : WsAccept(c)
  \/ \E c \in 1..RateConns : WsDisconnect(c)
  \/ \E c \in 1..RateConns :
       FramesSoFar < MaxFrames /\ WsReceive(c, Frame("group", NoUser, Text(1, 0)))
  \/ \E c \in 1..RateConns : WsDispatch(c)
  \/ \E c \in 1..RateConns, outcome \in {"sent", "lost", "raised"} : WsSend(c, outcome)

\* The event loop runs every handler that can take a step: a handler whose
\* await has returned, or will raise, is resumed.  What clients do, and when
\* a client that stopped reading reads again, is up to the clients.
StallFairness ==
  \A c \in 1..RateConns :
    /\ WF_vars(WsFindServer(c))
    /\ WF_vars(WsAuth(c))
    /\ WF_vars(WsAccept(c))
    /\ WF_vars(WsDisconnect(c))
    /\ WF_vars(WsDispatch(c))
    /\ WF_vars(\E outcome \in {"sent", "lost", "raised"} : WsSend(c, outcome))

StallSpec == RelayInit /\ [][StallNext]_vars /\ StallFairness

\* The state after room r1 was created and joined by a member who chose the
\* text of address o1 as user_id, and by "b".
NamesakeInit ==
  /\ servers = ("r1" :> [join_token |-> JoinToken("r1"), admin_user_id |-> "o1",
                         members |-> ("o1" :> DecodeBundle(Prekey1).bundle)
                                     @@ ("b" :> DecodeBundle(Prekey2).bundle)])
  /\ member_tokens = ("r1" :> (("o1" :> 1) @@ ("b" :> 2)))
  /\ connected = ("r1" :> <<>>)
  /\ rate_limits = <<>>
  /\ ip_connections = <<>>
  /\ now = 0
  /\ next_uuid = 3
  /\ ws = [c \in AllConns |-> IdleWs]
  /\ jn = [j \in AllJoins |-> IdleJoin]
  /\ inbox = [c \in AllConns |-> {}]
  /\ allowed = <<>>

\* The two members connect from either address and send frames.
NamesakeNext ==
  \/ \E c \in 1..RateConns, ip \in Origins : ConnStart(c, "r1", c, ip)
  \/ \E c \in 1..RateConns : WsFindServer(c)
  \/ \E c \in 1..RateConns : WsAuth(c)
  \/ \E c \in 1..RateConns : WsAccept(c)
  \/ \E c \in 1..RateConns : FramesSoFar < MaxRateFrames /\ WsReceive(c, PlainFrame)
  \/ \E c \in 1..RateConns : WsDispatch(c)

NamesakeSpec == NamesakeInit /\ [][NamesakeNext]_vars

\* ------------------------------------------------------------ claims
\* C2: a room's admin_user_id, once set, never changes.
AdminSetOnce ==
  [][\A r \in DOMAIN servers :
       servers[r].admin_user_id # NoUser
         => servers'[r].admin_user_id = servers[r].admin_user_id]_vars

\* C7: a join that passed the checks of lines 91-112 ends with its response
\* (status 200), whatever became of the join notification.
JoinSurvivesNotification ==
  \A j \in AllJoins :
    jn[j].pc = "done" /\ jn[j].status \notin {404, 401, 400} => jn[j].status = 200

\* The member tokens stored now or earlier: every token drawn, but for those
\* whose store (line 122) is still to come.
WasStored(token) ==
  /\ token \in 1..(next_uuid - 1)
  /\ ~\E j \in AllJoins : jn[j].pc = "set_token" /\ jn[j].member_token = token

StoredNow(r, token) ==
  r \in DOMAIN member_tokens /\ \E u \in DOMAIN member_tokens[r] : member_tokens[r][u] = token

Superseded(r, token) == WasStored(token) /\ ~StoredNow(r, token)

\* The member tokens issued so far.
Issued == 1..(next_uuid - 1)

\* C8: a connection passes authentication only with the token stored for a
\* member of its room, and is bound to that member; the token a join draws
\* was never issued before; a superseded token is refused with 1008.
TokenAuthentication ==
  [][/\ \A c \in AllConns :
          ws[c].pc = "find_tokens" /\ ws'[c].pc = "accepting"
            => /\ ws[c].server_id \in DOMAIN servers
               /\ ws'[c].user_id \in DOMAIN member_tokens[ws[c].server_id]
               /\ member_tokens[ws[c].server_id][ws'[c].user_id] = ws[c].member_token
     /\ \A c \in AllConns :
          ws'[c].pc = "receive" /\ ws[c].pc # "receive" /\ ws[c].nframes = 0
            => ws[c].pc = "accepting" /\ ws'[c].user_id = ws[c].user_id
     /\ \A j \in AllJoins :
          jn[j].pc = "update" /\ jn'[j].pc = "set_token"
            => jn'[j].member_token \notin Issued
     /\ \A c \in AllConns :
          /\ ws[c].pc = "find_tokens" /\ ws'[c].pc # "find_tokens"
          /\ Superseded(ws[c].server_id, ws[c].member_token)
          => ws'[c].pc = "closed" /\ ws'[c].code = 1008 /\ ~ws'[c].admitted]_vars

\* C8's case: the member has joined again and a connection that presented
\* the earlier token was refused.
SupersededTokenRefused ==
  \E c \in AllConns :
    /\ ws[c].pc = "closed" /\ ws[c].code = 1008
    /\ Superseded(ws[c].server_id, ws[c].member_token)
    /\ \E u \in DOMAIN member_tokens[ws[c].server_id] :
         member_tokens[ws[c].server_id][u] > ws[c].member_token

\* C9: the `others` of a response leaves out the joining member and holds,
\* for every other member of the refreshed document, text that decodes to
\* the bundle stored for that member; the response is then left as built.
OthersAreTheOtherBundles ==
  [][\A j \in AllJoins :
       /\ jn[j].pc = "refresh" /\ jn'[j].pc # "refresh"
          => LET stored == servers[jn[j].server_id].members
                 others == jn'[j].response.others IN
             /\ jn[j].body.user_id \notin DOMAIN others
             /\ DOMAIN others = DOMAIN stored \ {jn[j].body.user_id}
             /\ \A u \in DOMAIN others :
                  /\ others[u].registration_id = stored[u].registration_id
                  /\ \A f \in BinaryFields :
                       b64decode(others[u][f]) = [ok |-> TRUE, bytes |-> stored[u][f]]
       /\ jn[j].pc \in {"notify", "done"} => jn'[j].response = jn[j].response]_vars

\* C9's case: a join has returned the bundle of a member who joined twice.
OthersHoldLatestBundle ==
  \E j \in AllJoins :
    /\ jn[j].pc = "done" /\ jn[j].status = 200
    /\ jn[j].body.user_id = "b"
    /\ DOMAIN jn[j].response.others = {"a"}
    /\ jn[j].response.others["a"] = EncodeBundle(DecodeBundle(Prekey2).bundle)
    /\ jn[j].response.others["a"].identity # Prekey2.identity

\* The connection `connected` holds for member u of room r, 0 for none.
Registered(conn, r, u) ==
  IF r \in DOMAIN conn /\ HasKey(conn[r], u) THEN DictGet(conn[r], u) ELSE 0

\* C1: the teardown of a connection leaves a newer connection of the same
\* member in `connected`.
StaleTeardownKeepsNewer ==
  [][\A c1, c2 \in AllConns :
       /\ c1 # c2
       /\ ws'[c1].torn = ws[c1].torn + 1
       /\ Registered(connected, ws[c1].server_id, ws[c1].user_id) = c2
       => Registered(connected', ws[c1].server_id, ws[c1].user_id) = c2]_vars

\* C5: when the fan-out of a group frame ends, every connection that was in
\* the sender's room when it began, and whose transport is open, has been
\* sent the frame, and no connection of another room has.
GroupReachesRoom ==
  [][\A c \in AllConns :
       ws[c].pc = "broadcast" /\ ws'[c].pc # "broadcast" /\ ws[c].data.type = "group"
       => /\ \A t \in ws[c].snap : ws[t].alive => ws[c].data \in inbox'[t]
          /\ \A t \in AllConns :
               ws[c].data \in inbox'[t] => ws[t].server_id = ws[c].server_id]_vars

\* C6: when a send of a fan-out raises, a send has been begun, or is begun
\* afterwards, to every connection that was in the room when the fan-out began.
FailedSendKeepsFanOut ==
  [][/\ \A c \in AllConns :
          ws[c].pc = "broadcast" /\ ws'[c].exc = "send" => ws[c].snap \subseteq ws[c].tried
     /\ \A j \in AllJoins :
          jn[j].pc = "notify" /\ jn'[j].exc = "send" => jn[j].snap \subseteq jn[j].tried]_vars

\* C10: a private frame to a member with no connection in the sender's room
\* is dropped: no send is begun, nothing is delivered, the sender listens on;
\* and a private frame is only ever delivered to its addressee in the sender's room.
PrivateToAbsentIsDropped ==
  /\ [][\A c \in AllConns :
          /\ ws[c].pc = "touch" /\ ws'[c].pc # "touch"
          /\ ws[c].data.type = "private"
          /\ Registered(connected, ws[c].server_id, ws[c].data.to) = 0
          => /\ ws'[c].pc = "receive" /\ ws'[c].alive = ws[c].alive
             /\ ws'[c].torn = 0 /\ ws'[c].exc = "none" /\ ws'[c].code = 0
             /\ inbox' = inbox /\ connected' = connected]_vars
  /\ [](\A t \in AllConns : \A m \in inbox[t] :
          m.type = "private"
            => m.to = ws[t].user_id /\ ws[m.src].server_id = ws[t].server_id)

\* C10's case: a connection whose private frame found no recipient listens
\* on, and no client was sent a frame of it.
PrivateWasDropped ==
  \E c \in AllConns :
    /\ ws[c].last = "absent" /\ ws[c].pc = "receive" /\ ws[c].alive
    /\ Registered(connected, ws[c].server_id, ws[c].user_id) = c
    /\ \A t \in AllConns : \A m \in inbox[t] : m.src # c
    /\ \E t \in AllConns : t # c /\ ws[t].pc = "receive" /\ ws[t].server_id # ws[c].server_id


\* The connections of address `o` that were admitted and not torn down since.
HeldFrom(o) == {d \in AllConns : ws[d].ip = o /\ ws[d].admitted /\ ws[d].torn = 0}

\* The connections of address `o` that are past accept() and not yet closed.
ActiveFrom(o) ==
  {d \in AllConns : ws[d].ip = o
                    /\ ws[d].pc \in {"receive", "touch", "send_private", "broadcast"}}

\* The count ip_connections holds for an address.
IpCount(ipc, o) == IF o \in DOMAIN ipc THEN ipc[o] ELSE 0

\* C3: no address ever has more than CONN_LIMIT_PER_IP active connections; an
\* attempt with a valid token made while CONN_LIMIT_PER_IP connections of its
\* address are admitted and not torn down is closed with 1013 and stays closed;
\* and that refusal changes no other address's count nor its admission.
AdmissionLimit ==
  /\ [](\A o \in Origins : Cardinality(ActiveFrom(o)) <= CONN_LIMIT_PER_IP)
  /\ [](\A c \in AllConns : ws[c].code = 1013 => ws[c].pc = "closed" /\ ~ws[c].admitted)
  /\ [][\A c \in AllConns :
          /\ ws[c].pc = "find_tokens" /\ ws'[c].pc # "find_tokens"
          /\ FindUser(member_tokens, ws[c].server_id, ws[c].member_token) # NoUser
          /\ Cardinality(HeldFrom(ws[c].ip)) >= CONN_LIMIT_PER_IP
          => /\ ws'[c].pc = "closed" /\ ws'[c].code = 1013
             /\ \A o \in Origins \ {ws[c].ip} :
                  /\ IpCount(ip_connections', o) = IpCount(ip_connections, o)
                  /\ Admit(ip_connections', o).ok = Admit(ip_connections, o).ok]_vars

\* A sixth connection of an address was refused while five are active, and a
\* later attempt from the other address was admitted and is active.
SixthRefusedOtherAdmitted ==
  \E c, d \in AllConns :
    /\ ws[c].code = 1013
    /\ Cardinality(ActiveFrom(ws[c].ip)) = CONN_LIMIT_PER_IP
    /\ d > c /\ ws[d].ip # ws[c].ip /\ ws[d].ip \in Origins
    /\ d \in ActiveFrom(ws[d].ip)

\* MESSAGE_LIMIT events of the history `h` lie less than WINDOW_SEC before `t`.
Full(h, t) ==
  Len(h) >= MESSAGE_LIMIT /\ t - h[Len(h) - MESSAGE_LIMIT + 1] < WINDOW_SEC

\* The step let an event of `key` pass.
Passed(key) == Messages(allowed', key) = Append(Messages(allowed, key), now)

\* No more than MESSAGE_LIMIT allowed events of a key lie in one trailing window.
WindowBound ==
  \A key \in DOMAIN allowed : \A i \in 1..Len(allowed[key]) :
    Cardinality({k \in 1..i : allowed[key][i] - allowed[key][k] < WINDOW_SEC})
      <= MESSAGE_LIMIT

\* C4: an event of a key is rejected when MESSAGE_LIMIT allowed events of the
\* key lie less than WINDOW_SEC before it and is allowed otherwise, so at
\* least WINDOW_SEC after the first of them; the frame goes on only when both
\* its keys allow it; and no key has more than MESSAGE_LIMIT allowed events in
\* a trailing window.
RateLimiterWindow ==
  /\ []WindowBound
  /\ [][\A c \in AllConns :
          ws'[c].nframes = ws[c].nframes + 1 /\ ws'[c].last # "size"
          => /\ Passed(ws[c].user_id) <=> ~Full(Messages(allowed, ws[c].user_id), now)
             /\ Passed(ws[c].user_id)
                  => (Passed(ws[c].ip) <=> ~Full(Messages(allowed, ws[c].ip), now))
             /\ ~Passed(ws[c].user_id)
                  => Messages(allowed', ws[c].ip) = Messages(allowed, ws[c].ip)
             /\ ws'[c].pc = "touch" <=> Passed(ws[c].user_id) /\ Passed(ws[c].ip)]_vars

\* A member had MESSAGE_LIMIT events allowed in one window, the next refused,
\* and one allowed again WINDOW_SEC after the first.
AllowedAgainAfterWindow ==
  \E c \in AllConns :
    LET h == Messages(allowed, ws[c].user_id) IN
    /\ Len(h) = MESSAGE_LIMIT + 1
    /\ h[MESSAGE_LIMIT] - h[1] < WINDOW_SEC
    /\ h[MESSAGE_LIMIT + 1] - h[1] = WINDOW_SEC
    /\ ws[c].nframes > MESSAGE_LIMIT + 1

\* C11: a frame of more than SIZE_LIMIT characters on the transport is not
\* kept for dispatch and reaches no client; and the step that drops a frame
\* for its size leaves the connection listening and changes neither
\* `connected`, nor a rate window, nor a count of ip_connections.
OversizeIsDropped ==
  /\ [](\A c \in AllConns :
          /\ ws[c].pc \in {"touch", "send_private", "broadcast"}
               => JsonLen(ws[c].data) <= SIZE_LIMIT
          /\ \A m \in inbox[c] : JsonLen(m) <= SIZE_LIMIT)
  /\ [][\A c \in AllConns :
          ws'[c].nframes = ws[c].nframes + 1 /\ ws'[c].last = "size"
          => /\ ws'[c].pc = "receive" /\ ws'[c].alive /\ ws'[c].torn = 0
             /\ connected' = connected /\ rate_limits' = rate_limits
             /\ ip_connections' = ip_connections /\ inbox' = inbox]_vars

\* The connections registered in room r when a join's broadcast begins (line 144).
RegisteredIn(r) == IF r \in DOMAIN connected THEN Values(connected[r]) ELSE {}

\* C12: when a join that passed the checks ends, its join_notification has
\* reached every connection that was registered in the room when the
\* broadcast began and whose transport is open, and no other connection.
NotificationReachesRegistered ==
  [][\A j \in AllJoins :
       jn[j].pc \in {"refresh", "notify"} /\ jn'[j].pc = "done"
       => LET recipients == IF jn[j].pc = "refresh" THEN RegisteredIn(jn[j].server_id)
                            ELSE jn[j].snap
              note == Notification(j, jn[j].body.user_id) IN
          /\ \A t \in recipients : ws[t].alive => note \in inbox'[t]
          /\ \A t \in AllConns : note \in inbox'[t] => t \in recipients]_vars

\* C13: the finally block of lines 238-243 never runs twice for a connection,
\* and has run once for every admitted connection whose handler has ended.
TeardownExactlyOnce ==
  \A c \in AllConns :
    /\ ws[c].torn <= 1
    /\ ws[c].admitted /\ ws[c].pc = "closed" => ws[c].torn = 1

\* C14: a send to another connection that fails never ends the sender's
\* handler: the sender stays in its loop and in `connected`.
SendFailureStaysWithRecipient ==
  [][\A c \in AllConns :
       /\ ws[c].pc \in {"send_private", "broadcast"}
       /\ ws[c].target # c /\ ~TransportOpen(ws, ws[c].target)
       /\ ws'[c].pc # ws[c].pc \/ ws'[c].target # ws[c].target
       => /\ ws'[c].pc # "closed" /\ ws'[c].torn = 0
          /\ Registered(connected', ws[c].server_id, ws[c].user_id)
               = Registered(connected, ws[c].server_id, ws[c].user_id)]_vars

\* C15: a fan-out that no send failure ends is not ended by the iteration
\* either, and has then begun a send to exactly the connections its room's
\* dict held when it began.
BroadcastUsesSnapshot ==
  [][/\ \A c \in AllConns :
          /\ ws[c].pc = "broadcast"
          /\ ws'[c].pc # "broadcast" /\ ws'[c].exc # "send"
          => ws'[c].pc = "receive" /\ ws[c].tried = ws[c].snap
     /\ \A j \in AllJoins :
          /\ jn[j].pc = "notify"
          /\ jn'[j].pc # "notify" /\ jn'[j].exc # "send"
          => jn'[j].status = 200 /\ jn[j].tried = jn[j].snap]_vars

\* The connections of address `o` that were admitted and whose handler has
\* not ended.
OpenFrom(o) == {d \in HeldFrom(o) : ws[d].pc # "closed"}

\* C16: ip_connections holds, for each address, the number of its connections
\* that were admitted and not torn down; it holds no entry of zero, and none
\* for an address that has no open connection.
IpCountIsOpenConnections ==
  \A o \in Origins :
    /\ IpCount(ip_connections, o) = Cardinality(HeldFrom(o))
    /\ o \in DOMAIN ip_connections => ip_connections[o] > 0 /\ OpenFrom(o) # {}

\* C17: an admitted connection whose transport is gone is eventually closed,
\* its finally block run once.
ClosedTransportIsTornDown ==
  \A c \in AllConns :
    (ws[c].admitted /\ ~ws[c].alive) ~> (ws[c].pc = "closed" /\ ws[c].torn = 1)

\* C18: a frame that passes both rate limits adds one event to the window of
\* its member and one to the window of its address, and to no other window.
RelayedFrameCountsOnce ==
  [][\A c \in AllConns :
       ws'[c].nframes = ws[c].nframes + 1 /\ ws'[c].pc = "touch"
       => /\ \A key \in {ws[c].user_id, ws[c].ip} :
               Len(Messages(rate_limits', key))
                 = Len(Fresh(Messages(rate_limits, key), now)) + 1
          /\ \A key \in (DOMAIN rate_limits) \ {ws[c].user_id, ws[c].ip} :
               Messages(rate_limits', key) = Messages(rate_limits, key)]_vars

\* The join requests that were refused.
Refused(j) == jn[j].status \in {404, 401, 400}

\* C19: a join of an unknown room is answered 404, one with a wrong join
\* token 401, one without user_id or with a missing or undecodable bundle 400;
\* the step that refuses a join changes neither a room's document nor a
\* token, and a refused join has ended, drew no token and sent no notification.
FailedJoinChangesNothing ==
  /\ [][\A j \in AllJoins :
          jn[j].pc = "find_server" /\ jn'[j].pc # "find_server"
          => LET r == jn[j].server_id
                 body == jn[j].body IN
             /\ jn'[j].status =
                  IF r \notin DOMAIN servers THEN 404
                  ELSE IF body.join_token # JoinToken(r) THEN 401
                  ELSE IF \/ body.user_id = NoUser
                          \/ body.prekey_bundle = NoPrekey
                          \/ ~ParseInt(body.prekey_bundle.registration_id).ok
                          \/ \E f \in BinaryFields : ~b64decode(body.prekey_bundle[f]).ok
                       THEN 400
                  ELSE 0
             /\ jn'[j].status # 0
                  => /\ servers' = servers /\ member_tokens' = member_tokens
                     /\ inbox' = inbox /\ next_uuid' = next_uuid]_vars
  /\ [](\A j \in AllJoins :
          Refused(j)
            => /\ jn[j].pc = "done" /\ jn[j].member_token = 0
               /\ \A t \in AllConns : \A m \in inbox[t] : m.src # 0 - j)

\* "a" joined room r1; a later join of "b" with an undecodable bundle was
\* refused and left the room with "a" alone, its admin and its token.
JoinWasRefused ==
  \E j1, j2 \in AllJoins :
    /\ j1 < j2
    /\ jn[j1].status = 200 /\ jn[j1].body.user_id = "a"
    /\ jn[j2].status = 400 /\ jn[j2].body.user_id = "b"
    /\ jn[j2].body.prekey_bundle \in {PrekeyBadPadding, PrekeyBadRegistration}
    /\ DOMAIN servers["r1"].members = {"a"} /\ servers["r1"].admin_user_id = "a"
    /\ DOMAIN member_tokens["r1"] = {"a"}

\* C20: every connection held in `connected` is held under its own room and
\* member, has returned from accept() and has not run its finally block.
RegisteredAreActive ==
  \A r \in DOMAIN connected : \A i \in Live(connected[r]) :
         LET h == connected[r][i].ws IN
         /\ ws[h].pc \in {"receive", "touch", "send_private", "broadcast"}
         /\ ws[h].torn = 0
         /\ ws[h].server_id = r /\ ws[h].user_id = connected[r][i].user

\* A member reconnected and its older connection was torn down; the newer
\* one is registered and open.
ReconnectedAndTornDown ==
  \E c1, c2 \in AllConns :
    /\ c1 # c2 /\ ws[c1].user_id = ws[c2].user_id /\ ws[c1].server_id = ws[c2].server_id
    /\ ws[c1].torn = 1 /\ ws[c1].pc = "closed"
    /\ Registered(connected, ws[c2].server_id, ws[c2].user_id) = c2 /\ ws[c2].alive

====
